---- MODULE Spec2Model ----
(***************************************************************************)
(* HighlightSearcher (src/highlight_app.py): the aggregator that fans a    *)
(* query out to the registered clients, isolates their failures, merges    *)
(* their results and ranks them.                                           *)
(*                                                                         *)
(* A result is a Python dict, modelled as a function from key names to     *)
(* values whose DOMAIN is the set of keys present.  upload_date strings    *)
(* are sequences of character codes so that the string order of the sort   *)
(* key is computed, not assumed.                                           *)
(***************************************************************************)
EXTENDS Integers, Sequences, FiniteSets, TLC

\* ------------------------------------------------------------------ bounds
MaxClients == 2        \* registered clients
MaxMerged == 3         \* results collected during one search call

\* ------------------------------------------------------- program constants
DefaultMaxResults == 5

\* ------------------------------------------------------------------ values
\* self.last_error = None
NoError == [type |-> "NoneType", from |-> ""]

\* Class hierarchy of src/exceptions.py, rooted in the builtin classes, with the
\* library and builtin exception classes the clients meet.
Parent(c) ==
    CASE c = "Exception" -> "BaseException"
      [] c = "HighlightAppError" -> "Exception"
      [] c = "APIError" -> "HighlightAppError"
      [] c = "APIAuthenticationError" -> "APIError"
      [] c = "RateLimitError" -> "APIError"
      [] c = "APINotAvailableError" -> "APIError"
      [] c = "SearchError" -> "HighlightAppError"
      [] c = "TweepyException" -> "Exception"
      [] c = "Unauthorized" -> "TweepyException"
      [] c = "Forbidden" -> "TweepyException"
      [] c = "TypeError" -> "Exception"
      [] c = "RequestException" -> "Exception"
      [] c = "HttpError" -> "Exception"
      [] c = "AttributeError" -> "Exception"
      [] c = "ValueError" -> "Exception"
      [] c = "ImportError" -> "Exception"
      [] OTHER -> "object"

RECURSIVE IsSubclass(_, _)
IsSubclass(c, base) ==
    IF c = base THEN TRUE
    ELSE IF c = "object" THEN FALSE
    ELSE IsSubclass(Parent(c), base)

\* Exception classes a client's search lets escape: the bare Exception of
\* the test double and the taxonomy classes of the real clients.
RaisedTypes == {"Exception", "APIError"}

\* Registration order of the clients dict (insertion ordered).
ClientOrder == <<"mock1", "mock2", "good", "bad">>

\* Arguments of search(query, max_results): the default max_results and an
\* explicit one.
SearchArgs == {<<"test", DefaultMaxResults>>, <<"lebron", 1>>}

\* upload_date strings, as character sequences.
Date2023 == <<2, 0, 2, 3>>
Date2024 == <<2, 0, 2, 4>>

\* Result dicts the clients can return: the fixtures of tests/test_searcher.py
\* (none carries upload_date, one carries no url) and two dated results of the
\* shape built by the real clients, one of them without a score.
Catalogue ==
    { [platform |-> "m1", url |-> "url1", score |-> 5],
      [platform |-> "m2", url |-> "url2", score |-> 10],
      [platform |-> "m2", url |-> "url3", score |-> 1],
      [platform |-> "good", score |-> 1],
      [platform |-> "YouTube", url |-> "yt1", upload_date |-> Date2024, score |-> 0],
      [platform |-> "Twitter", url |-> "tw1", upload_date |-> Date2023] }

RECURSIVE SeqsUpTo(_, _)
SeqsUpTo(S, n) ==
    IF n = 0 THEN {<<>>}
    ELSE LET shorter == SeqsUpTo(S, n - 1)
         IN shorter \cup {Append(s, x) : s \in {t \in shorter : Len(t) = n - 1}, x \in S}

\* ------------------------------------------------------------ pure helpers
\* dict.get(key, default)
Get(x, key, default) == IF key \in DOMAIN x THEN x[key] ELSE default

\* str.__lt__: lexicographic order on character sequences.
RECURSIVE StrLess(_, _)
StrLess(s, t) ==
    IF t = <<>> THEN FALSE
    ELSE IF s = <<>> THEN TRUE
    ELSE IF Head(s) # Head(t) THEN Head(s) < Head(t)
    ELSE StrLess(Tail(s), Tail(t))

\* Mutant of SortKey: the date tie-break is forgotten.
SortKeyScoreOnly(x) == <<Get(x, "score", 0), <<>>>>

\* key=lambda x: (x.get("score", 0), x.get("upload_date", ""))
SortKey(x) == <<Get(x, "score", 0), Get(x, "upload_date", <<>>)>>

\* tuple.__lt__ on two sort keys
KeyLess(a, b) == a[1] < b[1] \/ (a[1] = b[1] /\ StrLess(a[2], b[2]))

RECURSIVE Reverse(_)
Reverse(s) == IF s = <<>> THEN <<>> ELSE Append(Reverse(Tail(s)), Head(s))

\* Stable insertion into an ascending run: x goes after every element whose
\* key is not greater than its own.
RECURSIVE InsertAsc(_, _)
InsertAsc(run, x) ==
    IF run = <<>> THEN <<x>>
    ELSE IF KeyLess(SortKey(x), SortKey(Head(run))) THEN <<x>> \o run
    ELSE <<Head(run)>> \o InsertAsc(Tail(run), x)

\* list.sort(): stable, ascending by key.
RECURSIVE StableSortAsc(_)
StableSortAsc(s) ==
    IF s = <<>> THEN <<>>
    ELSE InsertAsc(StableSortAsc(SubSeq(s, 1, Len(s) - 1)), s[Len(s)])

\* Mutant of _sort_results: reverse=True is dropped.
SortAscending(results) == StableSortAsc(results)

\* Mutant of _sort_results: sorted(...)[::-1] instead of reverse=True.
SortThenReverse(results) == Reverse(StableSortAsc(results))

\* sorted(results, key=..., reverse=True): the list is reversed, sorted by a
\* stable ascending sort and reversed again.
_sort_results(results) == Reverse(StableSortAsc(Reverse(results)))

\* Mutant of Extend: results already present (same url) are skipped.
RECURSIVE ExtendDedup(_, _)
ExtendDedup(results, client_results) ==
    IF client_results = <<>> THEN results
    ELSE LET x == Head(client_results)
             seen == \E i \in 1..Len(results) :
                         Get(results[i], "url", "") = Get(x, "url", "")
         IN ExtendDedup(IF seen THEN results ELSE Append(results, x),
                        Tail(client_results))

\* Mutant of Extend: results without a url are dropped from the merge.
ExtendWithUrlOnly(results, client_results) ==
    results \o SelectSeq(client_results, LAMBDA x : Get(x, "url", "") # "")

\* results.extend(client_results)
Extend(results, client_results) == results \o client_results

\* Mutant of ResetLastError: the reset at the start of search is missing.
KeepLastError(previous) == previous

\* self.last_error = None  # Reset last error before starting a new search
ResetLastError(previous) == NoError

\* Mutant of Caught: only the application's own API errors are caught.
CaughtAPIErrorOnly(e) == IsSubclass(e.type, "APIError")

\* except Exception as e
Caught(e) == IsSubclass(e.type, "Exception")

\* Mutant of RecordError: the first failure of a call is kept.
RecordFirstError(current, e) == IF current = NoError THEN e ELSE current

\* Mutant of RecordError: the failure is swallowed.
SwallowError(current, e) == current

\* self.last_error = e
RecordError(current, e) == e

\* Mutant of NextAfterError: the loop is left at the first failure.
BreakAfterError(i, n) == n + 1

\* The for loop goes on with the next client after the except clause.
NextAfterError(i, n) == i + 1

\* ------------------------------------------------------------------- state
VARIABLES
    clients,       \* self.clients: names in registration order
    last_error,    \* self.last_error
    pc,            \* "idle" | "loop" | "done": position of search()
    idx,           \* position of the for loop in clients
    query,         \* argument of the running call
    max_results,   \* argument of the running call
    results,       \* local list results
    returned,      \* value returned by the last finished call
    raised,        \* exception that left the last finished call
    calls,         \* client.search invocations made by the running call
    outcomes,      \* what each invoked client did, in invocation order
    entry_set      \* whether self.last_error was set when the running call was entered

vars == <<clients, last_error, pc, idx, query, max_results, results, returned,
          raised, calls, outcomes, entry_set>>

\* One call of a client's search (TwitterClient.search, YouTubeClient.search).
VARIABLES
    p_pc,          \* "idle" | "tw_primary" | "tw_fallback" | "yt_discovery" | "yt_detail" | "done"
    p_client,      \* "twitter" | "youtube": the client whose search runs
    p_args,        \* [query, max_results, use_fallback] of the running call
    p_result,      \* list returned by the finished call
    p_exc,         \* exception that left the finished call
    p_primary,     \* outcome of the first backend stage (_search_api, discovery call)
    p_secondary,   \* outcome of the second backend stage (_scrape_fallback, detail call)
    p_requests,    \* backend requests made by the running call, in order
    p_response     \* what the backend answered to the latest request

pvars == <<p_pc, p_client, p_args, p_result, p_exc, p_primary, p_secondary, p_requests,
           p_response>>

\* Application start-up: HighlightApp._initialize_clients and the constructors.
VARIABLES
    s_pc,          \* "load" | "twitter" | "youtube" | "done" | "crashed"
    s_env,         \* names of the environment variables that are set
    s_clients,     \* clients dict being built: names in insertion order
    s_crash,       \* exception that left _initialize_clients
    s_built        \* what each constructor did, by client name

svars == <<s_pc, s_env, s_clients, s_crash, s_built>>

\* The HighlightSearcher of highlight-app.py: construction and search.
VARIABLES
    l_pc,          \* "twitter" | "youtube" | "ready" | "crashed" | "off"
    l_env,         \* what is installed and configured: a record of booleans
    l_clients,     \* keys of self.clients
    l_selftest,    \* per client: "not_run" | "passed" | "failed"
    l_last_error,  \* self.last_error
    l_invoked      \* clients the latest search call invoked, in order

lvars == <<l_pc, l_env, l_clients, l_selftest, l_last_error, l_invoked>>

\* The window of HighlightApp, its event queue and its search threads.
VARIABLES
    g_button,      \* state of search_button: "normal" | "disabled"
    g_entry,       \* state of search_entry: "normal" | "disabled"
    g_status,      \* text of status_label
    g_text,        \* content of search_entry
    g_focus,       \* widget holding the keyboard focus
    g_queue,       \* callbacks registered with after(0, ...), in order
    g_threads,     \* the _run_search threads, by number
    g_last_error,  \* searcher.last_error, shared by the threads
    g_tree         \* rows of the results tree

gvars == <<g_button, g_entry, g_status, g_text, g_focus, g_queue, g_threads,
           g_last_error, g_tree>>

allvars == <<vars, pvars, svars, lvars, gvars>>

\* --------------------------------------------- values of the client models
\* No exception: the value of __cause__ / __context__ when unset, and of the
\* slots that hold an exception when none was raised.
NoExc == [type |-> "NoneType"]

\* An exception object.  msg is the set of phrases its str() contains, cause
\* is __cause__ (set by "raise ... from"), context is __context__ (the
\* exception that was being handled when this one was raised).
MakeExc(type, msg, cause, context) ==
    [type |-> type, msg |-> msg, cause |-> cause, context |-> context]

\* raise type(msg) while `handling` is being handled
Raise(type, msg, handling) == MakeExc(type, msg, NoExc, handling)

\* raise type(msg) from cause, while `handling` is being handled
RaiseFrom(type, msg, cause, handling) == MakeExc(type, msg, cause, handling)

\* str.lower() on the phrases that occur in backend messages.
LowerPhrase(p) ==
    CASE p = "Rate limit exceeded" -> "rate limit exceeded"
      [] p = "Access level" -> "access level"
      [] p = "API key" -> "api key"
      [] p = "keyInvalid" -> "keyinvalid"
      [] p = "Quota" -> "quota"
      [] OTHER -> p

Lower(msg) == {LowerPhrase(p) : p \in msg}

\* No outcome recorded for a backend stage.
NoOutcome == [kind |-> "none"]

\* The state of the client-call variables while no client call is modelled.
ProviderIdle ==
    /\ p_pc = "idle"
    /\ p_client = "none"
    /\ p_args = [query |-> "", max_results |-> 0, use_fallback |-> FALSE]
    /\ p_result = <<>>
    /\ p_exc = NoExc
    /\ p_primary = NoOutcome
    /\ p_secondary = NoOutcome
    /\ p_requests = <<>>
    /\ p_response = NoOutcome

\* The state of the start-up variables while start-up is not modelled.
StartupIdle ==
    /\ s_pc = "done"
    /\ s_env = {}
    /\ s_clients = <<>>
    /\ s_crash = NoExc
    /\ s_built = <<>>

\* The state of the variables of highlight-app.py while it is not modelled.
LegacyIdle ==
    /\ l_pc = "off"
    /\ l_env = [youtube_lib |-> FALSE, twitter_key |-> FALSE, youtube_key |-> FALSE]
    /\ l_clients = {}
    /\ l_selftest = [c \in {"twitter", "youtube"} |-> "not_run"]
    /\ l_last_error = NoError
    /\ l_invoked = <<>>

\* The state of the window variables while the window is not modelled.
WindowIdle ==
    /\ g_button = "normal"
    /\ g_entry = "normal"
    /\ g_status = "Ready to search"
    /\ g_text = ""
    /\ g_focus = "entry"
    /\ g_queue = <<>>
    /\ g_threads = <<>>
    /\ g_last_error = NoError
    /\ g_tree = <<>>

\* HighlightSearcher.__init__: the fields and the locals of search before any call.
SearcherFresh ==
    /\ last_error = NoError
    /\ pc = "idle"
    /\ idx = 1
    /\ query = "test"
    /\ max_results = DefaultMaxResults
    /\ results = <<>>
    /\ returned = <<>>
    /\ raised = NoError
    /\ calls = <<>>
    /\ outcomes = <<>>
    /\ entry_set = FALSE

\* A HighlightSearcher built on a registry of clients.
Init ==
    /\ \E n \in 0..MaxClients : clients = SubSeq(ClientOrder, 1, n)
    /\ SearcherFresh
    /\ ProviderIdle
    /\ StartupIdle
    /\ LegacyIdle
    /\ WindowIdle

\* search(): entry, lines 30-31.
SearchBegin ==
    /\ pc \in {"idle", "done"}
    /\ \E args \in SearchArgs :
          /\ query' = args[1]
          /\ max_results' = args[2]
    /\ results' = <<>>
    /\ last_error' = ResetLastError(last_error)
    /\ entry_set' = (last_error # NoError)
    /\ pc' = "loop"
    /\ idx' = 1
    /\ returned' = <<>>
    /\ raised' = NoError
    /\ calls' = <<>>
    /\ outcomes' = <<>>
    /\ UNCHANGED clients
    /\ UNCHANGED <<pvars, svars, lvars, gvars>>

\* One loop iteration whose client.search returns a list, lines 36-38.
ClientReturns ==
    /\ pc = "loop"
    /\ idx <= Len(clients)
    /\ \E client_results \in SeqsUpTo(Catalogue, MaxMerged - Len(results)) :
          /\ results' = Extend(results, client_results)
          /\ outcomes' = Append(outcomes, [kind |-> "ok", results |-> client_results,
                                           exc |-> NoError])
    /\ calls' = Append(calls, [name |-> clients[idx], query |-> query,
                               max_results |-> max_results])
    /\ idx' = idx + 1
    /\ UNCHANGED <<clients, last_error, pc, query, max_results, returned, raised,
                   entry_set>>
    /\ UNCHANGED <<pvars, svars, lvars, gvars>>

\* One loop iteration whose client.search raises, lines 36 and 39-41.
ClientRaises ==
    /\ pc = "loop"
    /\ idx <= Len(clients)
    /\ \E t \in RaisedTypes :
          LET e == [type |-> t, from |-> clients[idx]]
          IN /\ outcomes' = Append(outcomes, [kind |-> "raise", results |-> <<>>,
                                              exc |-> e])
             /\ IF Caught(e)
                THEN /\ last_error' = RecordError(last_error, e)
                     /\ idx' = NextAfterError(idx, Len(clients))
                     /\ UNCHANGED <<pc, raised>>
                ELSE /\ raised' = e
                     /\ pc' = "done"
                     /\ UNCHANGED <<last_error, idx>>
    /\ calls' = Append(calls, [name |-> clients[idx], query |-> query,
                               max_results |-> max_results])
    /\ UNCHANGED <<clients, query, max_results, results, returned, entry_set>>
    /\ UNCHANGED <<pvars, svars, lvars, gvars>>

\* return self._sort_results(results), line 43.
SearchReturn ==
    /\ pc = "loop"
    /\ idx > Len(clients)
    /\ returned' = _sort_results(results)
    /\ pc' = "done"
    /\ UNCHANGED <<clients, last_error, idx, query, max_results, results, raised,
                   calls, outcomes, entry_set>>
    /\ UNCHANGED <<pvars, svars, lvars, gvars>>

Next == SearchBegin \/ ClientReturns \/ ClientRaises \/ SearchReturn

Spec == Init /\ [][Next]_allvars

\* ------------------------------------------------- vocabulary of the claims
Done == pc = "done"

\* Positions of the invoked clients whose search raised.
FailedAt == {i \in 1..Len(outcomes) : outcomes[i].kind = "raise"}

AllSucceeded == Len(outcomes) = Len(clients) /\ FailedAt = {}

\* r1 ++ ... ++ rn over the clients that returned, in invocation order.
RECURSIVE Concatenated(_)
Concatenated(outs) ==
    IF outs = <<>> THEN <<>>
    ELSE (IF Head(outs).kind = "ok" THEN Head(outs).results ELSE <<>>)
         \o Concatenated(Tail(outs))

RECURSIVE SumOfLengths(_)
SumOfLengths(outs) ==
    IF outs = <<>> THEN 0
    ELSE Len(Head(outs).results) + SumOfLengths(Tail(outs))

Occurrences(s, x) == Cardinality({i \in 1..Len(s) : s[i] = x})

IsPermutation(s, t) ==
    /\ Len(s) = Len(t)
    /\ \A x \in Catalogue : Occurrences(s, x) = Occurrences(t, x)

\* The subsequence of s made of the results whose sort key is k.
WithKey(s, k) == SelectSeq(s, LAMBDA x : SortKey(x) = k)

LastFailed == CHOOSE i \in FailedAt : \A j \in FailedAt : j <= i

\* ------------------------------------------------------------------ claims

\* C1: when exactly one registered client's search raises, the call returns
\* exactly the results of the other clients (each as often as it was
\* returned, nothing else) and last_error is the exception that client raised.
C1_OneFailureIsolated ==
    (Done /\ Cardinality(FailedAt) = 1) =>
        /\ IsPermutation(returned, Concatenated(outcomes))
        /\ last_error = outcomes[LastFailed].exc
        /\ last_error.from = clients[LastFailed]

C1_Witness ==
    /\ Done
    /\ Len(clients) = 2
    /\ FailedAt = {1}
    /\ Len(returned) = 2
    /\ last_error = outcomes[1].exc

\* C2: during one search call every registered client's search is invoked
\* exactly once, in registration order, with the query and max_results of the
\* call, however many earlier clients raised.
C2_EveryClientInvokedOnce ==
    /\ \A i \in 1..Len(calls) :
          calls[i] = [name |-> clients[i], query |-> query,
                      max_results |-> max_results]
    /\ Len(calls) <= Len(clients)
    /\ Done => \A n \in 1..Len(clients) :
                  Cardinality({i \in 1..Len(calls) : calls[i].name = clients[n]}) = 1

C2_Witness ==
    /\ Done
    /\ Len(clients) = 2
    /\ FailedAt = {1}
    /\ Len(calls) = 2
    /\ calls[2].max_results = 1

\* C3: when every client succeeds the returned list is a permutation of
\* r1 ++ ... ++ rn: its length is the sum of the |ri| and a result returned by
\* two clients is kept twice.
C3_MergeKeepsEverything ==
    (Done /\ AllSucceeded) =>
        /\ IsPermutation(returned, Concatenated(outcomes))
        /\ Len(returned) = SumOfLengths(outcomes)

C3_Witness ==
    /\ Done
    /\ AllSucceeded
    /\ Len(clients) = 2
    /\ \E x \in Catalogue :
          /\ "url" \in DOMAIN x
          /\ Occurrences(outcomes[1].results, x) = 1
          /\ Occurrences(outcomes[2].results, x) = 1
          /\ Occurrences(returned, x) = 2

\* C4: the returned list is ordered by descending score and, among equal
\* scores, by descending upload_date in string order; a missing score counts
\* as 0 and a missing upload_date as the empty string.
C4_SortedDescending ==
    Done =>
        \A i \in 1..(Len(returned) - 1) :
            LET a == returned[i]
                b == returned[i + 1]
                sa == Get(a, "score", 0)
                sb == Get(b, "score", 0)
                da == Get(a, "upload_date", <<>>)
                db == Get(b, "upload_date", <<>>)
            IN sa > sb \/ (sa = sb /\ ~StrLess(da, db))

C4_Witness ==
    /\ Done
    /\ Len(returned) = 3
    /\ returned[1].score > Get(returned[2], "score", 0)
    /\ Get(returned[2], "score", 0) = Get(returned[3], "score", 0)
    /\ StrLess(Get(returned[3], "upload_date", <<>>), Get(returned[2], "upload_date", <<>>))
    /\ Get(returned[3], "upload_date", <<>>) # <<>>
    /\ "score" \notin DOMAIN returned[3]
    /\ results = <<returned[3], returned[2], returned[1]>>

\* C5: the sort is stable: results with equal (score, upload_date) are
\* returned in the order in which they were inserted into the merged list
\* (registration order of the clients, then position in the client's list).
C5_SortStable ==
    Done =>
        \A i \in 1..Len(returned) :
            LET k == SortKey(returned[i])
            IN WithKey(returned, k) = WithKey(Concatenated(outcomes), k)

C5_Witness ==
    /\ Done
    /\ \E i, j \in 1..Len(returned) :
          /\ i < j
          /\ returned[i] # returned[j]
          /\ SortKey(returned[i]) = SortKey(returned[j])
          /\ Len(outcomes) = 2
          /\ outcomes[1].results = <<returned[i]>>
          /\ outcomes[2].results = <<returned[j]>>

\* C6: with no registered client, or when every registered client returns
\* the empty list without raising, search returns the empty list and
\* last_error is None afterwards.
C6_NothingFound ==
    (Done /\ \A i \in 1..Len(clients) : outcomes[i].kind = "ok" /\ outcomes[i].results = <<>>)
        => (returned = <<>> /\ last_error = NoError)

C6_Witness ==
    /\ Done
    /\ Len(clients) = 2
    /\ \A i \in 1..Len(clients) : outcomes[i].kind = "ok" /\ outcomes[i].results = <<>>
    /\ entry_set
    /\ last_error = NoError

C8_LastErrorOfLatestCall ==
    (Done /\ FailedAt = {}) => last_error = NoError

C8_Witness ==
    /\ Done
    /\ entry_set
    /\ Len(clients) >= 1
    /\ FailedAt = {}
    /\ returned # <<>>
    /\ last_error = NoError

\* C9: when several clients raise during one call, last_error is the
\* exception of the client that failed last in registration order.
C9_LastFailureWins ==
    (Done /\ Cardinality(FailedAt) >= 2) =>
        /\ last_error = outcomes[LastFailed].exc
        /\ last_error.from = clients[LastFailed]

C9_Witness ==
    /\ Done
    /\ FailedAt = {1, 2}
    /\ outcomes[1].exc.type # outcomes[2].exc.type
    /\ last_error = outcomes[2].exc

\* The fixture of test_multiple_clients: mock1 returns one result of score 5,
\* mock2 two results of scores 10 and 1.
MultipleClientsFixture ==
    /\ Done
    /\ clients = <<"mock1", "mock2">>
    /\ Len(outcomes) = 2
    /\ outcomes[1].kind = "ok"
    /\ outcomes[1].results = <<[platform |-> "m1", url |-> "url1", score |-> 5]>>
    /\ outcomes[2].kind = "ok"
    /\ outcomes[2].results = <<[platform |-> "m2", url |-> "url2", score |-> 10],
                               [platform |-> "m2", url |-> "url3", score |-> 1]>>

MaxRequested == 2      \* largest max_results passed to a client
MaxItems == 2          \* items in one backend response

\* Arguments of a client's search.
ClientQueries == {"lebron", "curry"}
ClientMaxResults == 0..MaxRequested

\* Posts of the API response: entities.media / entities.urls as the lists of
\* their expanded_url values ("" for a missing one), the engagement counters
\* and created_at.  entities_ok = FALSE is a post whose entities is not a
\* dict, on which .get raises.
Tweets ==
    { [media |-> <<"media_link">>, urls |-> <<"url_link">>, favorite_count |-> 3,
       retweet_count |-> 2, created_at |-> Date2023, entities_ok |-> TRUE],
      [media |-> <<>>, urls |-> <<"url_link">>, favorite_count |-> 1,
       retweet_count |-> 0, created_at |-> Date2024, entities_ok |-> TRUE],
      [media |-> <<"">>, urls |-> <<"url_link">>, favorite_count |-> 0,
       retweet_count |-> 0, created_at |-> Date2024, entities_ok |-> TRUE],
      [media |-> <<>>, urls |-> <<>>, favorite_count |-> 0,
       retweet_count |-> 0, created_at |-> Date2023, entities_ok |-> TRUE],
      [media |-> <<>>, urls |-> <<>>, favorite_count |-> 0,
       retweet_count |-> 0, created_at |-> Date2023, entities_ok |-> FALSE] }

\* Messages of the errors api.search_tweets raises, as sets of phrases.
TwitterErrorMessages ==
    { {"Rate limit exceeded"}, {"access level"}, {"Access level"},
      {"Rate limit exceeded", "access level"}, {"server error"} }

\* What api.search_tweets can do.
TwitterApiResponses ==
    {[kind |-> "error", tweets |-> <<>>, exc |-> Raise("TweepyException", m, NoExc)] :
        m \in TwitterErrorMessages}
    \cup {[kind |-> "tweets", tweets |-> t, exc |-> NoExc] : t \in SeqsUpTo(Tweets, MaxItems)}

\* Post elements of the scraped page: the href of the role=link anchor ("" if
\* there is none) and whether an AdaptiveMedia-video element is present.
Divs ==
    { [href |-> "/a/status/1", video |-> TRUE],
      [href |-> "/b/status/2", video |-> FALSE],
      [href |-> "", video |-> TRUE] }

\* What the page fetch and parse can do.
ScrapeResponses ==
    {[kind |-> "error", divs |-> <<>>, exc |-> Raise(t, {"server error"}, NoExc)] :
        t \in {"RequestException", "AttributeError"}}
    \cup {[kind |-> "page", divs |-> d, exc |-> NoExc] : d \in SeqsUpTo(Divs, MaxItems)}

\* datetime.now().isoformat()
Clock == {Date2024}

Returns(found) == [kind |-> "ok", results |-> found, exc |-> NoExc]
Raises(e) == [kind |-> "raise", results |-> <<>>, exc |-> e]

\* Mutant of ClassifySearchError: the access-level test comes first.
ClassifyAccessLevelFirst(e) ==
    IF "access level" \in Lower(e.msg)
    THEN Raise("APIAuthenticationError", {"Access level"}, e)
    ELSE IF "Rate limit exceeded" \in e.msg
    THEN Raise("RateLimitError", {"Twitter", "rate limit exceeded"}, e)
    ELSE RaiseFrom("APIError", {"Twitter API error"} \cup e.msg, e, e)

\* except Exception as e in _search_api, lines 111-117
ClassifySearchError(e) ==
    IF "Rate limit exceeded" \in e.msg
    THEN Raise("RateLimitError", {"Twitter", "rate limit exceeded"}, e)
    ELSE IF "access level" \in Lower(e.msg)
    THEN Raise("APIAuthenticationError", {"Access level"}, e)
    ELSE RaiseFrom("APIError", {"Twitter API error"} \cup e.msg, e, e)

\* The best available URL of a post, lines 125-129.
VideoUrl(tweet) ==
    IF Len(tweet.media) > 0 THEN tweet.media[1]
    ELSE IF Len(tweet.urls) > 0 THEN tweet.urls[1]
    ELSE ""

\* The result dict built from a post, lines 133-140.
ApiResult(tweet, video_url) ==
    [platform |-> "Twitter", url |-> video_url, upload_date |-> tweet.created_at,
     score |-> tweet.favorite_count + tweet.retweet_count]

\* for tweet in tweets, lines 119-146
RECURSIVE ApiLoop(_, _, _)
ApiLoop(tweets, found, max) ==
    IF tweets = <<>> THEN Returns(found)
    ELSE LET tweet == Head(tweets)
             video_url == VideoUrl(tweet)
             appended == IF video_url # ""
                         THEN Append(found, ApiResult(tweet, video_url))
                         ELSE found
         IN IF ~tweet.entities_ok
            THEN Raises(Raise("AttributeError", {"no attribute get"}, NoExc))
            ELSE IF Len(appended) >= max THEN Returns(appended)
            ELSE ApiLoop(Tail(tweets), appended, max)

\* TwitterClient._search_api on a given backend response
_search_api(response, max) ==
    IF response.kind = "error"
    THEN Raises(ClassifySearchError(response.exc))
    ELSE ApiLoop(response.tweets, <<>>, max)

\* tweets[:max_results]
Take(seq, n) == SubSeq(seq, 1, IF n < Len(seq) THEN n ELSE Len(seq))

\* The result dict built from a scraped post, lines 179-185.
ScrapeResult(div, now) ==
    [platform |-> "Twitter", url |-> <<"https://twitter.com", div.href>>,
     upload_date |-> now, score |-> 0]

\* for tweet in tweets[:max_results], lines 166-189
RECURSIVE ScrapeLoop(_, _, _, _)
ScrapeLoop(divs, found, max, now) ==
    IF divs = <<>> THEN found
    ELSE LET div == Head(divs)
             appended == IF div.video /\ div.href # ""
                         THEN Append(found, ScrapeResult(div, now))
                         ELSE found
         IN IF Len(appended) >= max THEN appended
            ELSE ScrapeLoop(Tail(divs), appended, max, now)

\* Mutant of _scrape_fallback: a page with no accepted post is a failure.
ScrapeFailsWhenEmpty(response, max, now, handling) ==
    IF response.kind = "error"
       \/ ScrapeLoop(Take(response.divs, max), <<>>, max, now) = <<>>
    THEN Raises(RaiseFrom("APIError", {"Twitter scraping failed"}, handling, handling))
    ELSE Returns(ScrapeLoop(Take(response.divs, max), <<>>, max, now))

\* TwitterClient._scrape_fallback on a given page response, called while
\* `handling` (the failure of the API search) is being handled.
_scrape_fallback(response, max, now, handling) ==
    IF response.kind = "error"
    THEN LET e == [response.exc EXCEPT !.context = handling]
         IN IF IsSubclass(e.type, "RequestException")
            THEN Raises(RaiseFrom("APIError", {"Twitter scraping failed due to network error"}, e, e))
            ELSE Raises(RaiseFrom("APIError", {"Twitter scraping failed"}, e, e))
    ELSE Returns(ScrapeLoop(Take(response.divs, max), <<>>, max, now))

\* Mutant of FallbackEligible: RateLimitError is not sent to the fallback.
FallbackOnAuthenticationOnly(e) == IsSubclass(e.type, "APIAuthenticationError")

\* except (APIError, APIAuthenticationError) as e, line 84
FallbackEligible(e) ==
    IsSubclass(e.type, "APIError") \/ IsSubclass(e.type, "APIAuthenticationError")

\* Mutant of Reraise: use_fallback is ignored.
NeverReraise(use_fallback) == FALSE

\* if not use_fallback: raise, lines 85-86
Reraise(use_fallback) == ~use_fallback

\* Mutant of NotAvailable: the fallback failure is not chained.
NotAvailableFromNone(fallback_error) ==
    RaiseFrom("APINotAvailableError", {"Twitter search unavailable"}, NoExc, fallback_error)

\* raise APINotAvailableError(...) from fallback_error, line 92
NotAvailable(fallback_error) ==
    RaiseFrom("APINotAvailableError", {"Twitter search unavailable"}, fallback_error,
              fallback_error)

\* Mutant of Unexpected: the unexpected error is let through.
UnexpectedLetThrough(e) == e

\* raise APIError("Unexpected error during Twitter search") from e, line 95
Unexpected(e) == RaiseFrom("APIError", {"Unexpected error during Twitter search"}, e, e)

\* search(query, max_results, use_fallback): entry.
TwSearch ==
    /\ p_pc \in {"idle", "done"}
    /\ \E q \in ClientQueries, m \in ClientMaxResults, f \in BOOLEAN :
          p_args' = [query |-> q, max_results |-> m, use_fallback |-> f]
    /\ p_client' = "twitter"
    /\ p_pc' = "tw_primary"
    /\ p_result' = <<>>
    /\ p_exc' = NoExc
    /\ p_primary' = NoOutcome
    /\ p_secondary' = NoOutcome
    /\ p_requests' = <<>>
    /\ p_response' = NoOutcome
    /\ UNCHANGED <<vars, svars, lvars, gvars>>

\* return self._search_api(query, max_results) and the except clauses that
\* receive its failure, lines 82-87 and 93-95.
TwSearchApi ==
    /\ p_pc = "tw_primary"
    /\ \E response \in TwitterApiResponses :
          LET out == _search_api(response, p_args.max_results)
          IN /\ p_primary' = out
             /\ p_response' = response
             /\ IF out.kind = "ok"
                THEN /\ p_result' = out.results
                     /\ p_pc' = "done"
                     /\ UNCHANGED p_exc
                ELSE IF FallbackEligible(out.exc)
                THEN IF Reraise(p_args.use_fallback)
                     THEN /\ p_exc' = out.exc
                          /\ p_pc' = "done"
                          /\ UNCHANGED p_result
                     ELSE /\ p_pc' = "tw_fallback"
                          /\ UNCHANGED <<p_result, p_exc>>
                ELSE /\ p_exc' = IF IsSubclass(out.exc.type, "Exception")
                                 THEN Unexpected(out.exc)
                                 ELSE out.exc
                     /\ p_pc' = "done"
                     /\ UNCHANGED p_result
    /\ p_requests' = Append(p_requests, [op |-> "_search_api", query |-> p_args.query,
                                         max_results |-> p_args.max_results, ids |-> <<>>])
    /\ UNCHANGED <<p_client, p_args, p_secondary>>
    /\ UNCHANGED <<vars, svars, lvars, gvars>>

\* return self._scrape_fallback(query, max_results) and the except clause
\* that receives its failure, lines 88-92.
TwScrapeFallback ==
    /\ p_pc = "tw_fallback"
    /\ \E response \in ScrapeResponses, now \in Clock :
          LET out == _scrape_fallback(response, p_args.max_results, now, p_primary.exc)
          IN /\ p_secondary' = out
             /\ p_response' = response
             /\ IF out.kind = "ok"
                THEN /\ p_result' = out.results
                     /\ UNCHANGED p_exc
                ELSE /\ p_exc' = IF IsSubclass(out.exc.type, "Exception")
                                 THEN NotAvailable(out.exc)
                                 ELSE out.exc
                     /\ UNCHANGED p_result
    /\ p_pc' = "done"
    /\ p_requests' = Append(p_requests, [op |-> "_scrape_fallback", query |-> p_args.query,
                                         max_results |-> p_args.max_results, ids |-> <<>>])
    /\ UNCHANGED <<p_client, p_args, p_primary>>
    /\ UNCHANGED <<vars, svars, lvars, gvars>>

\* =========================================================================
\* YouTubeClient.search (src/clients/youtube_client.py)
\* =========================================================================

\* Items of the search.list response: the videoId of item["id"], "" for an
\* item whose id carries none (a channel or a playlist).
SearchItems == { [videoId |-> "v1"], [videoId |-> "v2"], [videoId |-> ""] }

\* Items of the videos.list response.  numeric = FALSE is a viewCount that
\* int() rejects.  duration is the length of the video in seconds: the
\* request asks for part="snippet,statistics", so the response does not carry
\* it and the code never reads it.
VideoItems ==
    { [id |-> "v1", viewCount |-> 50000, numeric |-> TRUE, publishedAt |-> Date2024,
       duration |-> 60],
      [id |-> "v2", viewCount |-> 49999, numeric |-> TRUE, publishedAt |-> Date2023,
       duration |-> 60],
      [id |-> "v3", viewCount |-> 0, numeric |-> FALSE, publishedAt |-> Date2023,
       duration |-> 60],
      [id |-> "v4", viewCount |-> 50000, numeric |-> TRUE, publishedAt |-> Date2024,
       duration |-> 59] }

\* Messages of the errors the YouTube API raises, as sets of phrases.
YouTubeErrorMessages ==
    { {"API key"}, {"keyInvalid"}, {"Quota"}, {"403", "Quota"}, {"server error"} }

YouTubeErrors == {Raise("HttpError", m, NoExc) : m \in YouTubeErrorMessages}

\* What search().list(...).execute() can do.
DiscoveryResponses ==
    {[kind |-> "error", items |-> <<>>, exc |-> e] : e \in YouTubeErrors}
    \cup {[kind |-> "items", items |-> i, exc |-> NoExc] : i \in SeqsUpTo(SearchItems, MaxItems)}

\* What videos().list(...).execute() can do.
DetailResponses ==
    {[kind |-> "error", items |-> <<>>, exc |-> e] : e \in YouTubeErrors}
    \cup {[kind |-> "items", items |-> i, exc |-> NoExc] : i \in SeqsUpTo(VideoItems, MaxItems)}

\* except Exception as e in YouTubeClient.search, lines 141-150
ClassifyYouTubeSearchError(e) ==
    LET error_str == Lower(e.msg)
    IN IF "api key" \in error_str \/ "keyinvalid" \in error_str \/ "403" \in error_str
       THEN RaiseFrom("APIAuthenticationError", {"YouTube API authentication failed"}, e, e)
       ELSE IF "quota" \in error_str
       THEN RaiseFrom("APIAuthenticationError", {"YouTube API quota exceeded"}, e, e)
       ELSE RaiseFrom("APIError", {"YouTube search failed"} \cup e.msg, e, e)

\* video_ids = [item["id"]["videoId"] for item in items if ...], lines 107-111
VideoIds(items) ==
    LET with_id == SelectSeq(items, LAMBDA item : item.videoId # "")
    IN [i \in 1..Len(with_id) |-> with_id[i].videoId]

\* Mutant of SkipDetail: the detail call is made for an empty id list too.
NeverSkipDetail(video_ids) == FALSE

\* if not video_ids: return results, lines 113-115
SkipDetail(video_ids) == video_ids = <<>>

\* The result dict built from a video, lines 129-138.
VideoResult(item) ==
    [platform |-> "YouTube", url |-> <<"https://www.youtube.com/watch?v=", item.id>>,
     upload_date |-> item.publishedAt, score |-> item.viewCount]

\* for item in videos_response.get("items", []), lines 124-139
RECURSIVE VideoLoop(_, _)
VideoLoop(items, found) ==
    IF items = <<>> THEN Returns(found)
    ELSE IF ~Head(items).numeric
    THEN Raises(Raise("ValueError", {"invalid literal for int()"}, NoExc))
    ELSE VideoLoop(Tail(items), Append(found, VideoResult(Head(items))))

\* search(query, max_results): entry, lines 88-91.  self.api was set by the
\* constructor, so the not-initialized branch is not taken.
YtSearch ==
    /\ p_pc \in {"idle", "done"}
    /\ \E q \in ClientQueries, m \in ClientMaxResults :
          p_args' = [query |-> q, max_results |-> m, use_fallback |-> FALSE]
    /\ p_client' = "youtube"
    /\ p_pc' = "yt_discovery"
    /\ p_result' = <<>>
    /\ p_exc' = NoExc
    /\ p_primary' = NoOutcome
    /\ p_secondary' = NoOutcome
    /\ p_requests' = <<>>
    /\ p_response' = NoOutcome
    /\ UNCHANGED <<vars, svars, lvars, gvars>>

\* The discovery call and the extraction of the video ids, lines 95-115, with
\* the except clause of lines 141-150.
YtDiscovery ==
    /\ p_pc = "yt_discovery"
    /\ \E response \in DiscoveryResponses :
          /\ p_response' = response
          /\ IF response.kind = "error"
             THEN /\ p_primary' = Raises(response.exc)
                  /\ p_exc' = ClassifyYouTubeSearchError(response.exc)
                  /\ p_pc' = "done"
             ELSE /\ p_primary' = [kind |-> "ok", results |-> VideoIds(response.items),
                                   exc |-> NoExc]
                  /\ p_pc' = IF SkipDetail(VideoIds(response.items))
                             THEN "done" ELSE "yt_detail"
                  /\ UNCHANGED p_exc
    /\ p_requests' = Append(p_requests, [op |-> "search.list", query |-> p_args.query,
                                         max_results |-> p_args.max_results, ids |-> <<>>])
    /\ UNCHANGED <<p_client, p_args, p_result, p_secondary>>
    /\ UNCHANGED <<vars, svars, lvars, gvars>>

\* The detail call and the construction of the results, lines 117-139 and 152,
\* with the except clause of lines 141-150.
YtDetail ==
    /\ p_pc = "yt_detail"
    /\ \E response \in DetailResponses :
          LET out == IF response.kind = "error" THEN Raises(response.exc)
                     ELSE VideoLoop(response.items, <<>>)
          IN /\ p_secondary' = out
             /\ p_response' = response
             /\ IF out.kind = "ok"
                THEN /\ p_result' = out.results
                     /\ UNCHANGED p_exc
                ELSE /\ p_exc' = ClassifyYouTubeSearchError(out.exc)
                     /\ UNCHANGED p_result
    /\ p_pc' = "done"
    /\ p_requests' = Append(p_requests, [op |-> "videos.list", query |-> p_args.query,
                                         max_results |-> p_args.max_results,
                                         ids |-> p_primary.results])
    /\ UNCHANGED <<p_client, p_args, p_primary>>
    /\ UNCHANGED <<vars, svars, lvars, gvars>>

\* A client on its own: no aggregator call and no start-up is modelled.
ProviderInit == Init /\ clients = <<>>

ProviderNext ==
    TwSearch \/ TwSearchApi \/ TwScrapeFallback \/ YtSearch \/ YtDiscovery \/ YtDetail

SpecProviders == ProviderInit /\ [][ProviderNext]_allvars

\* --------------------------------- vocabulary of the claims on the clients
TwDone == p_client = "twitter" /\ p_pc = "done"
YtDone == p_client = "youtube" /\ p_pc = "done"

\* _search_api raised.
PrimaryFailed == p_client = "twitter" /\ p_primary.kind = "raise"

\* _search_api raised because api.search_tweets raised.
ApiCallFailed == PrimaryFailed /\ p_primary.exc.context # NoExc

\* The message of the error api.search_tweets raised says so, in any case.
RateLimitSignal ==
    ApiCallFailed /\ "rate limit exceeded" \in Lower(p_primary.exc.context.msg)
AccessLevelSignal ==
    ApiCallFailed /\ "access level" \in Lower(p_primary.exc.context.msg)

FallbackCalls ==
    {i \in 1..Len(p_requests) : p_requests[i].op = "_scrape_fallback"}

\* The exceptions reached from e through __cause__ / through __context__.
RECURSIVE CauseChain(_)
CauseChain(e) == IF e.cause = NoExc THEN {} ELSE {e.cause} \cup CauseChain(e.cause)

RECURSIVE ContextChain(_)
ContextChain(e) ==
    IF e.context = NoExc THEN {} ELSE {e.context} \cup ContextChain(e.context)

Taxonomy == {"APINotAvailableError", "APIAuthenticationError", "RateLimitError", "APIError"}

\* C11: with use_fallback true, when the API search fails with a rate-limit or
\* an access-level condition the fallback scrape is attempted exactly once,
\* for the same query and max_results, and when it succeeds its results are
\* what search returns.
C11_FallbackAttemptedOnce ==
    /\ Cardinality(FallbackCalls) <= 1
    /\ (TwDone /\ p_args.use_fallback /\ (RateLimitSignal \/ AccessLevelSignal)) =>
          /\ Cardinality(FallbackCalls) = 1
          /\ \A i \in FallbackCalls :
                /\ p_requests[i].query = p_args.query
                /\ p_requests[i].max_results = p_args.max_results
          /\ p_secondary.kind = "ok" => (p_result = p_secondary.results /\ p_exc = NoExc)

C11_Witness ==
    /\ TwDone
    /\ p_args.use_fallback
    /\ RateLimitSignal
    /\ p_primary.exc.type = "RateLimitError"
    /\ p_secondary.kind = "ok"
    /\ Len(p_result) = 1
    /\ p_result = p_secondary.results

\* C12 as stated: when the API search fails with an error carrying neither a
\* rate-limit nor an access-level signal, the fallback scrape is never
\* attempted and the original error propagates to the caller.
C12_OtherFailurePropagates ==
    (TwDone /\ ApiCallFailed /\ ~RateLimitSignal /\ ~AccessLevelSignal) =>
        (FallbackCalls = {} /\ p_exc = p_primary.exc)

\* Both stages of TwitterClient.search failed.
BothFailed == TwDone /\ PrimaryFailed /\ p_secondary.kind = "raise"

\* C13 as stated: when the API search and the fallback scrape both fail,
\* search raises APINotAvailableError whose cause chain includes the primary
\* failure and the fallback failure.
C13_CauseChainHoldsBoth ==
    BothFailed =>
        /\ p_exc.type = "APINotAvailableError"
        /\ p_primary.exc \in CauseChain(p_exc)
        /\ p_secondary.exc \in CauseChain(p_exc)

\* C13 amended: when both fail, search raises APINotAvailableError whose
\* __cause__ is the fallback failure; the primary failure is not in the
\* __cause__ chain, it is reached only through the implicit __context__ links.
C13_CauseIsFallbackFailure ==
    BothFailed =>
        /\ p_exc.type = "APINotAvailableError"
        /\ p_exc.cause = p_secondary.exc
        /\ p_primary.exc \notin CauseChain(p_exc)
        /\ p_primary.exc \in ContextChain(p_exc)

C13_Witness ==
    /\ BothFailed
    /\ p_primary.exc.type = "RateLimitError"
    /\ p_secondary.exc.cause.type = "RequestException"
    /\ p_exc.type = "APINotAvailableError"

\* C14 as stated: when the Twitter API call fails because the rate limit is
\* exceeded, search raises RateLimitError to its caller.
C14_RateLimitErrorRaised ==
    (TwDone /\ ApiCallFailed /\ "Rate limit exceeded" \in p_primary.exc.context.msg) =>
        p_exc.type = "RateLimitError"

\* C15: with use_fallback false a classified failure of the API search
\* (RateLimitError, APIAuthenticationError, APIError) is re-raised unchanged
\* and the fallback scrape is never invoked.
C15_NoFallbackWhenDisabled ==
    (TwDone /\ ~p_args.use_fallback /\ PrimaryFailed
        /\ p_primary.exc.type \in {"RateLimitError", "APIAuthenticationError", "APIError"}) =>
        (p_exc = p_primary.exc /\ FallbackCalls = {})

C15_Witness ==
    /\ TwDone
    /\ ~p_args.use_fallback
    /\ PrimaryFailed
    /\ p_primary.exc.type = "APIAuthenticationError"
    /\ p_exc = p_primary.exc
    /\ Len(p_requests) = 1

\* C16 as stated: for every max_results >= 0 and every backend response the
\* list a client's search returns has at most max_results elements.
C16_AtMostMaxResults ==
    (p_pc = "done" /\ p_exc = NoExc) => Len(p_result) <= p_args.max_results

\* C20: every exception that leaves a client's search is one of the taxonomy
\* kinds APINotAvailableError, APIAuthenticationError, RateLimitError, APIError.
C20_OnlyTaxonomyEscapes ==
    (p_pc = "done" /\ p_exc # NoExc) => p_exc.type \in Taxonomy

C20_Witness ==
    /\ TwDone
    /\ p_primary.kind = "raise"
    /\ p_primary.exc.type = "AttributeError"
    /\ p_exc.type = "APIError"
    /\ p_exc.cause = p_primary.exc

\* C21: a failure of api.search_tweets is classified by its message: the
\* rate-limit message gives RateLimitError, an access-level message gives
\* APIAuthenticationError, any other message gives the plain APIError, and a
\* message carrying both signals gives RateLimitError.
C21_ClassifiedByMessage ==
    ApiCallFailed =>
        LET e == p_primary.exc.context
            rate_limit == "Rate limit exceeded" \in e.msg
            access_level == "access level" \in Lower(e.msg)
        IN /\ rate_limit => p_primary.exc.type = "RateLimitError"
           /\ (access_level /\ ~rate_limit) => p_primary.exc.type = "APIAuthenticationError"
           /\ (~access_level /\ ~rate_limit) => p_primary.exc.type = "APIError"

C21_Witness ==
    /\ ApiCallFailed
    /\ "Rate limit exceeded" \in p_primary.exc.context.msg
    /\ "access level" \in Lower(p_primary.exc.context.msg)
    /\ p_primary.exc.type = "RateLimitError"

\* YouTubeClient.search raised; the exception its except clause received.
YtFailed == YtDone /\ p_exc # NoExc
YtBackendError == IF p_primary.kind = "raise" THEN p_primary.exc ELSE p_secondary.exc

\* C22 as stated: a failing YouTubeClient.search gives APIAuthenticationError
\* for an invalid or missing key, APIAuthenticationError with a message
\* distinct from the invalid-key message for quota exhaustion, and the plain
\* APIError for any other failure.
C22_FailureMapping ==
    YtFailed =>
        LET error_str == Lower(YtBackendError.msg)
            key == "api key" \in error_str \/ "keyinvalid" \in error_str
            quota == "quota" \in error_str
        IN /\ key => p_exc.type = "APIAuthenticationError"
           /\ (quota /\ ~key) =>
                 /\ p_exc.type = "APIAuthenticationError"
                 /\ p_exc.msg # {"YouTube API authentication failed"}
           /\ (~quota /\ ~key) => p_exc.type = "APIError"

DetailCalls == {i \in 1..Len(p_requests) : p_requests[i].op = "videos.list"}

\* C23: when the discovery call yields no video id the detail call is not
\* made and an empty list is returned without error; otherwise exactly one
\* detail call is made, for the whole list of ids.
C23_OneBatchedDetailCall ==
    /\ Cardinality(DetailCalls) <= 1
    /\ (YtDone /\ p_primary.kind = "ok") =>
          IF p_primary.results = <<>>
          THEN DetailCalls = {} /\ p_result = <<>> /\ p_exc = NoExc
          ELSE /\ Cardinality(DetailCalls) = 1
               /\ \A i \in DetailCalls : p_requests[i].ids = p_primary.results

C23_Witness ==
    /\ YtDone
    /\ p_primary.kind = "ok"
    /\ Len(p_primary.results) = 2
    /\ Len(p_requests) = 2
    /\ p_requests[2].op = "videos.list"
    /\ p_requests[2].ids = p_primary.results

\* C24 as stated: YouTubeClient.search returns a candidate exactly when its
\* view count is at least 50,000 and its duration at least 60 seconds.
C24_ViewAndDurationThresholds ==
    (YtDone /\ p_exc = NoExc /\ p_secondary.kind = "ok") =>
        \A i \in 1..Len(p_response.items) :
            LET item == p_response.items[i]
            IN (\E j \in 1..Len(p_result) : p_result[j].url[2] = item.id)
                   <=> (item.viewCount >= 50000 /\ item.duration >= 60)

\* The link the specification selects for a post: the attached media link
\* when there is a usable one, else the first embedded URL.
BestLink(tweet) ==
    IF Len(tweet.media) > 0 /\ tweet.media[1] # "" THEN tweet.media[1]
    ELSE IF Len(tweet.urls) > 0 /\ tweet.urls[1] # "" THEN tweet.urls[1]
    ELSE ""

\* C25 as stated: the url of each result of the API search is the media link
\* of its post when it has one, else the first embedded URL, and a post is
\* dropped only when it has neither.  Stated for the responses that max_results
\* does not cut short.
C25_BestLinkSelected ==
    (p_client = "twitter" /\ p_primary.kind = "ok" /\ p_response.kind = "tweets"
        /\ Len(p_response.tweets) <= p_args.max_results) =>
        LET links == [i \in 1..Len(p_response.tweets) |-> BestLink(p_response.tweets[i])]
            kept == SelectSeq(links, LAMBDA link : link # "")
        IN [i \in 1..Len(p_primary.results) |-> p_primary.results[i].url] = kept

\* What a client's search hands to its caller.
SearchOutcome == IF p_exc = NoExc THEN Returns(p_result) ELSE Raises(p_exc)

\* last_error after a HighlightSearcher.search over this one client.
LastErrorFrom(out) ==
    IF out.kind = "raise" /\ Caught(out.exc)
    THEN RecordError(ResetLastError(NoError), out.exc)
    ELSE ResetLastError(NoError)

\* C28: when the API search fails and the fallback scrape completes without
\* error, search returns the fallback list and raises nothing, even when no
\* post was accepted: the aggregator records no last_error, and the empty
\* outcome equals that of an API search that found no post.
C28_FallbackSuccessHidesPrimaryFailure ==
    (TwDone /\ PrimaryFailed /\ p_response.kind = "page") =>
        /\ p_secondary.kind = "ok"
        /\ p_exc = NoExc
        /\ p_result = p_secondary.results
        /\ LastErrorFrom(SearchOutcome) = NoError
        /\ p_result = <<>> =>
              SearchOutcome = _search_api([kind |-> "tweets", tweets |-> <<>>, exc |-> NoExc],
                                          p_args.max_results)

C28_Witness ==
    /\ TwDone
    /\ PrimaryFailed
    /\ p_args.max_results >= 1
    /\ p_response.kind = "page"
    /\ Len(p_response.divs) = 1
    /\ p_result = <<>>
    /\ p_exc = NoExc

\* =========================================================================
\* Start-up: HighlightApp.__init__ / _initialize_clients and the constructors
\* of the clients (src/highlight_app.py, src/config.py, src/clients/)
\* =========================================================================

\* Environment variables load_api_keys requires, config.py lines 65-78.
RequiredVars ==
    {"TWITTER_API_KEY", "TWITTER_API_SECRET", "TWITTER_BEARER_TOKEN",
     "TWITTER_ACCESS_TOKEN", "TWITTER_ACCESS_TOKEN_SECRET", "YOUTUBE_API_KEY"}

\* if api_keys.twitter_api_key and ... , highlight_app.py line 85
TwitterKeysSet(env) ==
    {"TWITTER_API_KEY", "TWITTER_API_SECRET", "TWITTER_ACCESS_TOKEN",
     "TWITTER_ACCESS_TOKEN_SECRET"} \subseteq env

\* if api_keys.youtube_key, highlight_app.py line 97
YouTubeKeySet(env) == "YOUTUBE_API_KEY" \in env

\* load_api_keys(): ValueError when a required variable is missing.
load_api_keys(env) ==
    IF RequiredVars \ env # {}
    THEN Raises(Raise("ValueError", {"Missing required environment variables"}, NoExc))
    ELSE Returns(<<>>)

\* What a constructor meets: a missing library, a failing build of the API
\* object (YouTube only), a failing credential check, or nothing.
TwitterConstructions ==
    {[stage |-> "import", exc |-> Raise("ImportError", {"No module named tweepy"}, NoExc)],
     [stage |-> "ok", exc |-> NoExc]}
    \cup {[stage |-> "verify", exc |-> Raise("TweepyException", m, NoExc)] :
             m \in {{"401 Unauthorized"}, {"server error"}}}

YouTubeConstructions ==
    {[stage |-> "import", exc |-> Raise("ImportError", {"No module named googleapiclient"}, NoExc)],
     [stage |-> "build", exc |-> Raise("HttpError", {"server error"}, NoExc)],
     [stage |-> "ok", exc |-> NoExc]}
    \cup {[stage |-> "verify", exc |-> e] : e \in YouTubeErrors}

\* TwitterClient.test_credentials, lines 58-63
test_credentials(e) ==
    RaiseFrom("APIAuthenticationError", {"Twitter authentication failed"}, e, e)

\* TwitterClient.__init__: the exception it raises, NoExc when it succeeds.
TwitterClientInit(met) ==
    IF met.stage = "import"
    THEN Raise("APINotAvailableError", {"tweepy is required"}, met.exc)
    ELSE IF met.stage = "verify" THEN test_credentials(met.exc)
    ELSE NoExc

\* YouTubeClient.test_api_key, lines 61-71
test_api_key(e) ==
    LET error_str == Lower(e.msg)
    IN IF "api key" \in error_str \/ "keyinvalid" \in error_str
       THEN RaiseFrom("APIAuthenticationError", {"YouTube API key is invalid"}, e, e)
       ELSE IF "quota" \in error_str
       THEN RaiseFrom("APIAuthenticationError",
                      {"YouTube API key invalid or quota exceeded"}, e, e)
       ELSE RaiseFrom("APIError", {"YouTube API error"} \cup e.msg, e, e)

\* YouTubeClient.__init__: the exception it raises, NoExc when it succeeds.
YouTubeClientInit(met) ==
    IF met.stage = "import"
    THEN Raise("APINotAvailableError", {"google-api-python-client is required"}, met.exc)
    ELSE IF met.stage = "build"
    THEN RaiseFrom("APINotAvailableError", {"Failed to initialize YouTube client"},
                   met.exc, met.exc)
    ELSE IF met.stage = "verify" THEN test_api_key(met.exc)
    ELSE NoExc

\* except (APINotAvailableError, APIAuthenticationError) as exc, lines 94 and 101
InitializationCaught(e) ==
    IsSubclass(e.type, "APINotAvailableError") \/ IsSubclass(e.type, "APIAuthenticationError")

\* api_keys = load_api_keys() and its except clause, lines 72-82.  With no
\* key set the empty dict is returned and the searcher is built on it.
LoadKeys ==
    /\ s_pc = "load"
    /\ IF load_api_keys(s_env).kind = "raise"
       THEN /\ s_pc' = "done"
            /\ clients' = s_clients
       ELSE /\ s_pc' = "twitter"
            /\ UNCHANGED clients
    /\ UNCHANGED <<s_env, s_clients, s_crash, s_built>>
    /\ UNCHANGED <<last_error, pc, idx, query, max_results, results, returned, raised,
                   calls, outcomes, entry_set>>
    /\ UNCHANGED <<pvars, lvars, gvars>>

\* clients["twitter"] = TwitterClient(...) and its except clause, lines 85-95.
ConstructTwitter ==
    /\ s_pc = "twitter"
    /\ IF ~TwitterKeysSet(s_env)
       THEN /\ s_pc' = "youtube"
            /\ UNCHANGED <<s_clients, s_crash, s_built>>
       ELSE \E met \in TwitterConstructions :
               LET e == TwitterClientInit(met)
               IN /\ s_built' = Append(s_built, [name |-> "twitter", stage |-> met.stage,
                                                 exc |-> e])
                  /\ IF e = NoExc
                     THEN /\ s_clients' = Append(s_clients, "twitter")
                          /\ s_pc' = "youtube"
                          /\ UNCHANGED s_crash
                     ELSE IF InitializationCaught(e)
                     THEN /\ s_pc' = "youtube"
                          /\ UNCHANGED <<s_clients, s_crash>>
                     ELSE /\ s_pc' = "crashed"
                          /\ s_crash' = e
                          /\ UNCHANGED s_clients
    /\ UNCHANGED s_env
    /\ UNCHANGED <<vars, pvars, lvars, gvars>>

\* clients["youtube"] = YouTubeClient(...) and its except clause, then
\* return clients and HighlightSearcher(self.clients), lines 97-104 and 64.
ConstructYouTube ==
    /\ s_pc = "youtube"
    /\ IF ~YouTubeKeySet(s_env)
       THEN /\ s_pc' = "done"
            /\ clients' = s_clients
            /\ UNCHANGED <<s_clients, s_crash, s_built>>
       ELSE \E met \in YouTubeConstructions :
               LET e == YouTubeClientInit(met)
               IN /\ s_built' = Append(s_built, [name |-> "youtube", stage |-> met.stage,
                                                 exc |-> e])
                  /\ IF e = NoExc
                     THEN /\ s_clients' = Append(s_clients, "youtube")
                          /\ clients' = Append(s_clients, "youtube")
                          /\ s_pc' = "done"
                          /\ UNCHANGED s_crash
                     ELSE IF InitializationCaught(e)
                     THEN /\ s_pc' = "done"
                          /\ clients' = s_clients
                          /\ UNCHANGED <<s_clients, s_crash>>
                     ELSE /\ s_pc' = "crashed"
                          /\ s_crash' = e
                          /\ UNCHANGED <<s_clients, clients>>
    /\ UNCHANGED s_env
    /\ UNCHANGED <<last_error, pc, idx, query, max_results, results, returned, raised,
                   calls, outcomes, entry_set>>
    /\ UNCHANGED <<pvars, lvars, gvars>>

\* The application is started in some environment.
StartupInit ==
    /\ s_pc = "load"
    /\ s_env \in SUBSET RequiredVars
    /\ s_clients = <<>>
    /\ s_crash = NoExc
    /\ s_built = <<>>
    /\ clients = <<>>
    /\ SearcherFresh
    /\ ProviderIdle
    /\ LegacyIdle
    /\ WindowIdle

StartupNext == LoadKeys \/ ConstructTwitter \/ ConstructYouTube

SpecStartup == StartupInit /\ [][StartupNext]_allvars

\* ---------------------------------- vocabulary of the claims on start-up
\* Constructions whose credential verification (the self-test) failed.
SelfTestFailed == {i \in 1..Len(s_built) : s_built[i].stage = "verify"}

Registered(name) == \E i \in 1..Len(s_clients) : s_clients[i] = name

\* C17 as stated: a client whose construction-time credential verification
\* fails, fails construction with APIAuthenticationError, for TwitterClient and
\* YouTubeClient and whatever the cause of the verification failure.
C17_SelfTestFailureIsAuthentication ==
    \A i \in SelfTestFailed : s_built[i].exc.type = "APIAuthenticationError"

\* C18 as stated: when a client's self-test fails, _initialize_clients does
\* not raise, that client is left out of the mapping, the other client is
\* registered if its own self-test passes, and the application starts.
C18_SelfTestFailureExcludesOnly ==
    SelfTestFailed # {} =>
        /\ s_crash = NoExc
        /\ s_pc # "crashed"
        /\ \A i \in 1..Len(s_built) :
              Registered(s_built[i].name) <=> s_built[i].stage = "ok"

\* C19 as stated: every result in the list search returns has a non-empty url.
C19_EveryResultHasUrl ==
    Done => \A i \in 1..Len(returned) : Get(returned[i], "url", "") # ""

\* C19 amended: search drops nothing on account of the url: a result without
\* url that a client returned is in the returned list, as often as it was
\* returned.
C19_ResultsWithoutUrlKept ==
    Done =>
        \A x \in Catalogue :
            "url" \notin DOMAIN x =>
                Occurrences(returned, x) = Occurrences(Concatenated(outcomes), x)

C19_Witness ==
    /\ Done
    /\ clients = <<"mock1", "mock2">>
    /\ FailedAt = {2}
    /\ Len(returned) = 1
    /\ "url" \notin DOMAIN returned[1]
    /\ returned[1].platform = "good"

\* =========================================================================
\* The HighlightSearcher of highlight-app.py: construction and search
\* =========================================================================

\* What the construction of the tweepy client meets: an exception before
\* self.clients['twitter'] is assigned, an exception of verify_credentials,
\* or nothing.
LegacyTwitterOutcomes ==
    {[stage |-> "ok", exc |-> NoExc],
     [stage |-> "handler", exc |-> Raise("TypeError", {"consumer secret"}, NoExc)]}
    \cup {[stage |-> "verify", exc |-> Raise(t, {"server error"}, NoExc)] :
             t \in {"Unauthorized", "Forbidden", "TweepyException"}}

\* What the construction of the YouTube client meets: an exception of build,
\* an exception of the test search, or nothing.
LegacyYouTubeOutcomes ==
    {[stage |-> "ok", exc |-> NoExc],
     [stage |-> "build", exc |-> Raise("HttpError", {"server error"}, NoExc)]}
    \cup {[stage |-> "verify", exc |-> e] : e \in YouTubeErrors}

\* _test_twitter_credentials: self.clients after verify_credentials raised e.
\* Only tweepy.errors.Unauthorized is caught there and deletes the client;
\* any other exception reaches the except clause of _initialize_twitter_client,
\* which prints and deletes nothing.
_test_twitter_credentials(registered, e) ==
    IF IsSubclass(e.type, "Unauthorized") THEN registered \ {"twitter"} ELSE registered

\* _test_youtube_api_key: self.clients after the test search raised e.
_test_youtube_api_key(registered, e) ==
    IF IsSubclass(e.type, "Exception") THEN registered \ {"youtube"} ELSE registered

\* _initialize_twitter_client, lines 127-143, with _test_twitter_credentials.
InitializeTwitter ==
    /\ l_pc = "twitter"
    /\ IF ~l_env.twitter_key
       THEN UNCHANGED <<l_clients, l_selftest>>
       ELSE \E met \in LegacyTwitterOutcomes :
               CASE met.stage = "handler" -> UNCHANGED <<l_clients, l_selftest>>
                 [] met.stage = "ok" ->
                       /\ l_clients' = l_clients \cup {"twitter"}
                       /\ l_selftest' = [l_selftest EXCEPT !["twitter"] = "passed"]
                 [] met.stage = "verify" ->
                       /\ l_clients' = _test_twitter_credentials(l_clients \cup {"twitter"},
                                                                 met.exc)
                       /\ l_selftest' = [l_selftest EXCEPT !["twitter"] = "failed"]
    /\ l_pc' = "youtube"
    /\ UNCHANGED <<l_env, l_last_error, l_invoked>>
    /\ UNCHANGED <<vars, pvars, svars, gvars>>

\* _initialize_youtube_client, lines 154-171, with _test_youtube_api_key.
\* The key is sliced before the try: a missing key ends the constructor.
InitializeYouTube ==
    /\ l_pc = "youtube"
    /\ IF ~l_env.youtube_lib
       THEN /\ l_pc' = "ready"
            /\ UNCHANGED <<l_clients, l_selftest>>
       ELSE IF ~l_env.youtube_key
       THEN /\ l_pc' = "crashed"
            /\ UNCHANGED <<l_clients, l_selftest>>
       ELSE /\ l_pc' = "ready"
            /\ \E met \in LegacyYouTubeOutcomes :
                  CASE met.stage = "build" -> UNCHANGED <<l_clients, l_selftest>>
                    [] met.stage = "ok" ->
                          /\ l_clients' = l_clients \cup {"youtube"}
                          /\ l_selftest' = [l_selftest EXCEPT !["youtube"] = "passed"]
                    [] met.stage = "verify" ->
                          /\ l_clients' = _test_youtube_api_key(l_clients \cup {"youtube"},
                                                                met.exc)
                          /\ l_selftest' = [l_selftest EXCEPT !["youtube"] = "failed"]
    /\ UNCHANGED <<l_env, l_last_error, l_invoked>>
    /\ UNCHANGED <<vars, pvars, svars, gvars>>

\* The clients search goes through, in its order: twitter, youtube (no reddit
\* client is ever registered).
LegacyOrder(registered) ==
    SelectSeq(<<"twitter", "youtube">>, LAMBDA c : c \in registered)

\* self.last_error after the blocks of search ran with the given failures.
RECURSIVE LegacyLastError(_, _, _)
LegacyLastError(order, failures, current) ==
    IF order = <<>> THEN current
    ELSE LegacyLastError(Tail(order), failures,
                         IF Head(order) \in failures
                         THEN [type |-> "Exception", from |-> Head(order)]
                         ELSE current)

\* search(query, max_results), lines 190-225: each registered client is
\* searched inside its own try block.
LegacySearch ==
    /\ l_pc = "ready"
    /\ \E q \in ClientQueries, failures \in SUBSET l_clients :
          /\ l_invoked' = [i \in 1..Len(LegacyOrder(l_clients)) |->
                              [client |-> LegacyOrder(l_clients)[i], query |-> q]]
          /\ l_last_error' = LegacyLastError(LegacyOrder(l_clients), failures, NoError)
    /\ UNCHANGED <<l_pc, l_env, l_clients, l_selftest>>
    /\ UNCHANGED <<vars, pvars, svars, gvars>>

\* HighlightSearcher.__init__, lines 116-120, in some installation.
LegacyInit ==
    /\ l_pc = "twitter"
    /\ l_env \in [youtube_lib : BOOLEAN, twitter_key : BOOLEAN, youtube_key : BOOLEAN]
    /\ l_clients = {}
    /\ l_selftest = [c \in {"twitter", "youtube"} |-> "not_run"]
    /\ l_last_error = NoError
    /\ l_invoked = <<>>
    /\ clients = <<>>
    /\ SearcherFresh
    /\ ProviderIdle
    /\ StartupIdle
    /\ WindowIdle

LegacyNext == InitializeTwitter \/ InitializeYouTube \/ LegacySearch

SpecLegacy == LegacyInit /\ [][LegacyNext]_allvars

\* C26 as stated: after construction a client whose self-test failed is not
\* in self.clients, and no later search call invokes it.
C26_FailedSelfTestNotRegistered ==
    l_pc = "ready" =>
        \A c \in {"twitter", "youtube"} :
            l_selftest[c] = "failed" =>
                /\ c \notin l_clients
                /\ \A i \in 1..Len(l_invoked) : l_invoked[i].client # c

\* =========================================================================
\* The window: HighlightApp.start_search, _run_search and the event loop
\* (src/highlight_app.py lines 106-220)
\* =========================================================================

\* ------------------------------------------------------------------ bounds
MaxSearches == 2       \* _run_search threads started in one run

\* What the user types into the entry, empty at first: blanks, or a keyword.
EntryTexts == {" ", "lebron"}

\* str.strip() on those texts
Strip(text) == IF text = " " THEN "" ELSE text

\* self.clients of the running application, for a start-up that registered
\* the YouTube client only.
WindowClients == <<"youtube">>

\* What one client's search can hand back to the aggregator: a list, or one
\* of the exceptions that leave TwitterClient.search / YouTubeClient.search.
WindowResult(client) ==
    [platform |-> client, url |-> "url_link", upload_date |-> Date2024, score |-> 1]

WindowError(client) ==
    IF client = "twitter"
    THEN [type |-> "APINotAvailableError", from |-> client]
    ELSE [type |-> "APIError", from |-> client]

\* "access level" in str(self.searcher.last_error), line 180: neither
\* "Twitter search unavailable: both API and fallback failed" nor
\* "YouTube search failed: ..." contains it.
MentionsAccessLevel(e) == FALSE

\* A thread just created by threading.Thread(target=self._run_search, ...).
NewThread(q) ==
    [pc |-> "begin", query |-> q, idx |-> 1, results |-> <<>>, failed |-> FALSE,
     seen_error |-> NoError, raised |-> FALSE]

\* Mutant of Enqueue: the callback is lost.
DropCallback(queue, callback) == queue

\* self.after(0, callback)
Enqueue(queue, callback) == Append(queue, callback)

\* start_search(), lines 158-171, entered with the focus on `focus`.
StartSearch(focus) ==
    IF Strip(g_text) = ""
    THEN /\ g_focus' = "entry"
         /\ UNCHANGED <<g_button, g_entry, g_status, g_tree, g_threads>>
    ELSE /\ Len(g_threads) < MaxSearches
         /\ g_button' = "disabled"
         /\ g_entry' = "disabled"
         /\ g_status' = "Searching..."
         /\ g_tree' = <<>>
         /\ g_threads' = Append(g_threads, NewThread(Strip(g_text)))
         /\ g_focus' = focus

\* The user types into the entry: the class bindings of the entry edit its
\* text only while it is enabled and holds the focus.
TypeText ==
    /\ g_entry = "normal"
    /\ g_focus = "entry"
    /\ \E text \in EntryTexts \ {g_text} : g_text' = text
    /\ UNCHANGED <<g_button, g_entry, g_status, g_focus, g_queue, g_threads,
                   g_last_error, g_tree>>
    /\ UNCHANGED <<vars, pvars, svars, lvars>>

\* The user clicks into the enabled entry, which takes the focus.
ClickEntry ==
    /\ g_entry = "normal"
    /\ g_focus # "entry"
    /\ g_focus' = "entry"
    /\ UNCHANGED <<g_button, g_entry, g_status, g_text, g_queue, g_threads,
                   g_last_error, g_tree>>
    /\ UNCHANGED <<vars, pvars, svars, lvars>>

\* The user presses Return while the entry holds the focus: the binding of
\* line 118 is on the widget itself and calls start_search whatever the state
\* of the entry (only the class bindings of a widget look at its state, and
\* disabling a widget does not move the focus).
PressReturn ==
    /\ g_focus = "entry"
    /\ StartSearch("entry")
    /\ UNCHANGED <<g_text, g_queue, g_last_error>>
    /\ UNCHANGED <<vars, pvars, svars, lvars>>

\* The user clicks the button: its command (line 126) runs only while the
\* button is enabled, and the click gives the button the focus.
ClickButton ==
    /\ g_button = "normal"
    /\ StartSearch("button")
    /\ UNCHANGED <<g_text, g_queue, g_last_error>>
    /\ UNCHANGED <<vars, pvars, svars, lvars>>

\* A thread enters self.searcher.search(query): highlight_app.py lines 30-31.
RunSearchBegin ==
    \E t \in 1..Len(g_threads) :
        /\ g_threads[t].pc = "begin"
        /\ g_last_error' = ResetLastError(g_last_error)
        /\ g_threads' = [g_threads EXCEPT ![t].pc = "loop", ![t].results = <<>>,
                                          ![t].idx = 1]
        /\ UNCHANGED <<g_button, g_entry, g_status, g_text, g_focus, g_queue, g_tree>>
        /\ UNCHANGED <<vars, pvars, svars, lvars>>

\* One iteration of the loop of search in a thread, lines 34-41.
RunSearchClient ==
    \E t \in 1..Len(g_threads) :
        LET th == g_threads[t]
            client == WindowClients[th.idx]
            e == WindowError(client)
        IN /\ th.pc = "loop"
           /\ th.idx <= Len(WindowClients)
           /\ \/ \E client_results \in {<<>>, <<WindowResult(client)>>} :
                    /\ g_threads' = [g_threads EXCEPT
                                        ![t].results = Extend(th.results, client_results),
                                        ![t].idx = th.idx + 1]
                    /\ UNCHANGED g_last_error
              \/ /\ Caught(e)
                 /\ g_last_error' = RecordError(g_last_error, e)
                 /\ g_threads' = [g_threads EXCEPT
                                     ![t].idx = NextAfterError(th.idx, Len(WindowClients)),
                                     ![t].failed = TRUE]
           /\ UNCHANGED <<g_button, g_entry, g_status, g_text, g_focus, g_queue, g_tree>>
           /\ UNCHANGED <<vars, pvars, svars, lvars>>

\* The callback _run_search registers for what search returned, lines 178-195.
ResultCallback(found, error) ==
    IF found = <<>>
    THEN IF error # NoError /\ MentionsAccessLevel(error)
         THEN [do |-> "showerror", rows |-> <<>>, title |-> "Access Level Error"]
         ELSE IF error # NoError
         THEN [do |-> "showerror", rows |-> <<>>, title |-> "Search Error"]
         ELSE [do |-> "showinfo", rows |-> <<>>, title |-> "No Results"]
    ELSE [do |-> "_update_results", rows |-> found, title |-> ""]

\* search returns in a thread (line 43) and _run_search registers the
\* callback for its outcome, lines 177-197.  sorted() raises TypeError on
\* results whose keys do not compare; the except clause of line 196 takes it.
RunSearchReturn ==
    \E t \in 1..Len(g_threads) :
        LET th == g_threads[t]
        IN /\ th.pc = "loop"
           /\ th.idx > Len(WindowClients)
           /\ \/ /\ g_queue' = Enqueue(g_queue,
                                       ResultCallback(_sort_results(th.results), g_last_error))
                 /\ g_threads' = [g_threads EXCEPT
                                     ![t].pc = "finally",
                                     ![t].results = <<>>,
                                     ![t].seen_error = g_last_error]
              \/ /\ g_queue' = Enqueue(g_queue, [do |-> "_show_error", rows |-> <<>>,
                                                 title |-> "Error"])
                 /\ g_threads' = [g_threads EXCEPT
                                     ![t].pc = "finally",
                                     ![t].results = <<>>,
                                     ![t].seen_error = g_last_error,
                                     ![t].raised = TRUE]
           /\ UNCHANGED <<g_button, g_entry, g_status, g_text, g_focus, g_last_error,
                          g_tree>>
           /\ UNCHANGED <<vars, pvars, svars, lvars>>

\* The callbacks of the finally block, lines 199-202, in order.
FinallyCallbacks ==
    << [do |-> "button_normal", rows |-> <<>>, title |-> ""],
       [do |-> "entry_normal", rows |-> <<>>, title |-> ""],
       [do |-> "status_ready", rows |-> <<>>, title |-> ""],
       [do |-> "focus_set", rows |-> <<>>, title |-> ""] >>

\* self.after(0, ...) for each of the callbacks, in order.
RECURSIVE EnqueueAll(_, _)
EnqueueAll(queue, callbacks) ==
    IF callbacks = <<>> THEN queue
    ELSE EnqueueAll(Enqueue(queue, Head(callbacks)), Tail(callbacks))

\* The terminated thread: its locals are gone.
Terminated(thread) ==
    [thread EXCEPT !.pc = "done", !.failed = FALSE, !.seen_error = NoError,
                   !.raised = FALSE]

\* The finally block of _run_search, lines 198-202, after which the thread
\* terminates.
RunSearchFinally ==
    \E t \in 1..Len(g_threads) :
        /\ g_threads[t].pc = "finally"
        /\ g_queue' = EnqueueAll(g_queue, FinallyCallbacks)
        /\ g_threads' = [g_threads EXCEPT ![t] = Terminated(g_threads[t])]
        /\ UNCHANGED <<g_button, g_entry, g_status, g_text, g_focus, g_last_error, g_tree>>
        /\ UNCHANGED <<vars, pvars, svars, lvars>>

\* The event loop runs the oldest registered callback.  The message boxes
\* change nothing in the window.
RunCallback ==
    /\ g_queue # <<>>
    /\ LET callback == Head(g_queue)
       IN /\ g_button' = IF callback.do = "button_normal" THEN "normal" ELSE g_button
          /\ g_entry' = IF callback.do = "entry_normal" THEN "normal" ELSE g_entry
          /\ g_status' = IF callback.do = "status_ready" THEN "Ready" ELSE g_status
          /\ g_focus' = IF callback.do = "focus_set" THEN "entry" ELSE g_focus
          /\ g_tree' = IF callback.do = "_update_results"
                       THEN g_tree \o callback.rows ELSE g_tree
    /\ g_queue' = Tail(g_queue)
    /\ UNCHANGED <<g_text, g_threads, g_last_error>>
    /\ UNCHANGED <<vars, pvars, svars, lvars>>

\* The window after _create_widgets, before mainloop handles an event.
WindowInit ==
    /\ WindowIdle
    /\ clients = <<>>
    /\ SearcherFresh
    /\ ProviderIdle
    /\ StartupIdle
    /\ LegacyIdle

WindowNext ==
    \/ TypeText \/ ClickEntry \/ PressReturn \/ ClickButton
    \/ RunSearchBegin \/ RunSearchClient \/ RunSearchReturn \/ RunSearchFinally
    \/ RunCallback

SpecWindow == WindowInit /\ [][WindowNext]_allvars

\* The threads are scheduled and mainloop keeps running callbacks.
SpecWindowLive ==
    /\ WindowInit
    /\ [][WindowNext]_allvars
    /\ WF_allvars(RunSearchBegin \/ RunSearchClient \/ RunSearchReturn \/ RunSearchFinally)
    /\ WF_allvars(RunCallback)

\* ---------------------------------- vocabulary of the claims on the window
\* Threads whose HighlightSearcher.search call has not returned yet.
InFlight ==
    {t \in 1..Len(g_threads) : g_threads[t].pc \in {"begin", "loop"}}

\* Threads whose HighlightSearcher.search call has just returned.
Returned ==
    {t \in 1..Len(g_threads) : g_threads[t].pc = "finally"}

Restored == g_button = "normal" /\ g_entry = "normal" /\ g_status = "Ready"

\* C27 as stated: after any HighlightSearcher.search call last_error is not
\* None exactly when a client's search raised during that call; an empty list
\* with last_error None means every client succeeded with no result.
C27_LastErrorIffSomeFailure ==
    \A t \in Returned :
        ~g_threads[t].raised =>
            (g_threads[t].seen_error # NoError <=> g_threads[t].failed)

\* C29 as stated: at most one aggregation is in flight at any time.
C29_AtMostOneInFlight == Cardinality(InFlight) <= 1

====
